---------------------------- MODULE Spec2Model ----------------------------
(***************************************************************************)
(* Model of PhilippineHighwayNavigatorUCS (gps_navigation_ucs.py): the     *)
(* graph store (add_location, add_highway) and Uniform Cost Search         *)
(* (ucs_search) with its heapq frontier.                                   *)
(*                                                                         *)
(* Numbers.  distance_km and toll_php are integers; traffic_factor is      *)
(* held in tenths (13 stands for 1.3); every cost (an edge's total_cost,   *)
(* a cumulative cost) is held in tenths of a cost unit, so that            *)
(*   distance_km * traffic_factor + toll_php / 10.0                        *)
(* is the integer distance_km * traffic_factor + toll_php.  The arithmetic *)
(* is exact; the rounding of Python's floats is not modelled.              *)
(*                                                                         *)
(* None is the empty tuple; a value that may be None is held as a tuple    *)
(* of length at most one.                                                  *)
(***************************************************************************)
EXTENDS Integers, Sequences, FiniteSets, TLC

\* ------------------------------------------------------------- bounds

\* Builder calls (add_location and add_highway together) in one behaviour.
MaxCalls == 3

\* Iterations of the while loop of one ucs_search that the model follows.
\* A search over non-negative costs pops at most 1 + 2 * MaxCalls entries.
MaxSteps == 8

\* ------------------------------------------------------------- inputs

\* Location identifiers (any mutually comparable Python values).
Ids == {1, 2, 3}

\* self.start / self.goal before the first search (None).
NoLocation == 0

Names == {"Manila", "Maynila"}

\* <<distance_km, traffic_factor (tenths), toll_php, highway_name>>:
\* edge costs 1.0, 1.0 (another highway), 2.5 and -1.0.
HighwayInputs ==
    { <<1, 10, 0, "">>,
      <<0, 10, 10, "NLEX">>,
      <<1, 15, 10, "SCTEX">>,
      <<1, 10, -20, "">> }

\* The concrete scenario: A = 1, B = 2, C = 3.
ScenarioHighways ==
    { <<1, 2, 80, 13, 180, "NLEX">>,
      <<2, 3, 55, 11, 95, "SCTEX">>,
      <<1, 3, 200, 10, 0, "">> }

ScenarioNames == <<"A", "B", "C">>

\* ------------------------------------------------------------- state

VARIABLES
    graph,              \* self.graph: id -> list of edge records
    locations,          \* self.locations: id -> name
    start, goal,        \* self.start, self.goal
    priority_queue,     \* the heap list of ucs_search
    visited,            \* location -> best_cost_so_far
    step,               \* iterations of the while loop
    current_cost, current_location, path_info,  \* the entry last popped
    pc,                 \* "idle" | "loop" | "done"
    branch,             \* how the last iteration ended
    result,             \* the tuple the last ucs_search returned
    outcome,            \* which return statement produced it
    message,            \* the diagnostic the last ucs_search printed
    calls               \* history: the builder calls made so far

vars == <<graph, locations, start, goal, priority_queue, visited, step,
          current_cost, current_location, path_info, pc, branch, result,
          outcome, message, calls>>

storeVars == <<graph, locations, calls>>

searchVars == <<start, goal, priority_queue, visited, step, current_cost,
                current_location, path_info, pc, branch, result, outcome,
                message>>

\* ------------------------------------------------------------- helpers

None == << >>

Some(x) == <<x>>

EmptyDict == [k \in {} |-> 0]

\* d[k] = v of a Python dict.
Put(d, k, v) == [x \in (DOMAIN d) \cup {k} |-> IF x = k THEN v ELSE d[x]]

Last(s) == s[Len(s)]

\* Python's order on the strings that occur as highway labels.
StringOrder == <<"", "Local Road", "NLEX", "SCTEX", "Starting Point">>

StrRank(s) == CHOOSE i \in 1..Len(StringOrder) : StringOrder[i] = s

\* Tuple comparison of two waypoints
\* (location, cumulative_cost, cumulative_distance, cumulative_toll, highway).
WaypointLess(w, x) ==
    \/ w[1] < x[1]
    \/ w[1] = x[1] /\ w[2] < x[2]
    \/ w[1] = x[1] /\ w[2] = x[2] /\ w[3] < x[3]
    \/ w[1] = x[1] /\ w[2] = x[2] /\ w[3] = x[3] /\ w[4] < x[4]
    \/ w[1] = x[1] /\ w[2] = x[2] /\ w[3] = x[3] /\ w[4] = x[4]
          /\ StrRank(w[5]) < StrRank(x[5])

\* List comparison of two path_info lists: the first differing waypoint
\* decides; a proper prefix is smaller.
RECURSIVE PathLessFrom(_, _, _)
PathLessFrom(p, q, i) ==
    IF i > Len(p) THEN i <= Len(q)
    ELSE IF i > Len(q) THEN FALSE
    ELSE IF p[i] = q[i] THEN PathLessFrom(p, q, i + 1)
    ELSE WaypointLess(p[i], q[i])

PathLess(p, q) == PathLessFrom(p, q, 1)

\* Mutant: the location is compared before the cost.
EntryLessByLocation(e, f) ==
    \/ e[2] < f[2]
    \/ e[2] = f[2] /\ e[1] < f[1]
    \/ e[1] = f[1] /\ e[2] = f[2] /\ PathLess(e[3], f[3])

\* item < other for two frontier entries (cost, location, path_info).
EntryLess(e, f) ==
    \/ e[1] < f[1]
    \/ e[1] = f[1] /\ e[2] < f[2]
    \/ e[1] = f[1] /\ e[2] = f[2] /\ PathLess(e[3], f[3])

\* ------------------------------------------------------------- heapq
\* Positions are 0-based as in heapq; heap[pos + 1] is the element at pos.

RECURSIVE SiftDownLoop(_, _, _, _)
SiftDownLoop(heap, startpos, pos, newitem) ==
    IF pos > startpos
    THEN LET parentpos == (pos - 1) \div 2
             parent == heap[parentpos + 1]
         IN  IF EntryLess(newitem, parent)
             THEN SiftDownLoop([heap EXCEPT ![pos + 1] = parent],
                               startpos, parentpos, newitem)
             ELSE [heap EXCEPT ![pos + 1] = newitem]
    ELSE [heap EXCEPT ![pos + 1] = newitem]

siftdown(heap, startpos, pos) ==
    SiftDownLoop(heap, startpos, pos, heap[pos + 1])

RECURSIVE SiftUpLoop(_, _, _, _)
SiftUpLoop(heap, startpos, pos, newitem) ==
    LET endpos == Len(heap)
        childpos == 2 * pos + 1
        rightpos == childpos + 1
    IN  IF childpos < endpos
        THEN LET c == IF rightpos < endpos
                         /\ ~EntryLess(heap[childpos + 1], heap[rightpos + 1])
                      THEN rightpos ELSE childpos
             IN  SiftUpLoop([heap EXCEPT ![pos + 1] = heap[c + 1]],
                            startpos, c, newitem)
        ELSE siftdown([heap EXCEPT ![pos + 1] = newitem], startpos, pos)

siftup(heap, pos) == SiftUpLoop(heap, pos, pos, heap[pos + 1])

heappush(heap, item) == siftdown(Append(heap, item), 0, Len(heap))

\* heappop(heap), for a non-empty heap: the item returned and the heap left.
heappop(heap) ==
    LET lastelt == Last(heap)
        rest == SubSeq(heap, 1, Len(heap) - 1)
    IN  IF rest # << >>
        THEN [item |-> rest[1], heap |-> siftup([rest EXCEPT ![1] = lastelt], 0)]
        ELSE [item |-> lastelt, heap |-> rest]

\* ------------------------------------------------------------- graph store

\* Mutant: the toll is not divided by ten.
EdgeCostTollUnscaled(distance_km, traffic_factor, toll_php) ==
    distance_km * traffic_factor + toll_php * 10

\* total_cost of one highway.
EdgeCost(distance_km, traffic_factor, toll_php) ==
    distance_km * traffic_factor + toll_php

\* graph with an empty list for loc unless it has one.
EnsureList(g, loc) == IF loc \in DOMAIN g THEN g ELSE Put(g, loc, << >>)

AppendEdge(g, loc, rec) == [g EXCEPT ![loc] = Append(g[loc], rec)]

\* Mutant: the adjacency list is reset on every registration.
add_location_reset(location_id, name) ==
    /\ pc = "idle"
    /\ locations' = Put(locations, location_id, name)
    /\ graph' = Put(graph, location_id, << >>)
    /\ calls' = Append(calls, <<"add_location", location_id, name>>)
    /\ UNCHANGED searchVars

add_location(location_id, name) ==
    /\ pc = "idle"
    /\ locations' = Put(locations, location_id, name)
    /\ graph' = EnsureList(graph, location_id)
    /\ calls' = Append(calls, <<"add_location", location_id, name>>)
    /\ UNCHANGED searchVars

\* Mutant: only the record from from_loc to to_loc is appended.
add_highway_oneway(from_loc, to_loc, distance_km, traffic_factor, toll_php, highway_name) ==
    LET total_cost == EdgeCost(distance_km, traffic_factor, toll_php)
        g0 == EnsureList(EnsureList(graph, from_loc), to_loc)
    IN  /\ pc = "idle"
        /\ graph' = AppendEdge(g0, from_loc,
                  <<to_loc, total_cost, distance_km, traffic_factor,
                    toll_php, highway_name>>)
        /\ calls' = Append(calls, <<"add_highway", from_loc, to_loc,
                    distance_km, traffic_factor, toll_php, highway_name>>)
        /\ UNCHANGED <<locations, searchVars>>

add_highway(from_loc, to_loc, distance_km, traffic_factor, toll_php, highway_name) ==
    LET total_cost == EdgeCost(distance_km, traffic_factor, toll_php)
        g0 == EnsureList(EnsureList(graph, from_loc), to_loc)
        g1 == AppendEdge(g0, from_loc,
                  <<to_loc, total_cost, distance_km, traffic_factor,
                    toll_php, highway_name>>)
    IN  /\ pc = "idle"
        /\ graph' = AppendEdge(g1, to_loc,
                  <<from_loc, total_cost, distance_km, traffic_factor,
                    toll_php, highway_name>>)
        /\ calls' = Append(calls, <<"add_highway", from_loc, to_loc,
                    distance_km, traffic_factor, toll_php, highway_name>>)
        /\ UNCHANGED <<locations, searchVars>>

\* ------------------------------------------------------------- ucs_search

\* return None, None, None, None: the early return and the return after the loop.
UnknownLocationResult == <<None, None, None, None>>

NotFoundResult == <<None, None, None, None>>

UnknownMessage == "Error: Start or Goal location not found"

NoRouteMessage == "No highway route found"

\* Mutant: only the start is looked up.
KnownStartOnly(s, g) == s \in DOMAIN graph

\* The guard of the early return.
Known(s, g) == s \in DOMAIN graph /\ g \in DOMAIN graph

\* Mutant: an entry of equal cost is not skipped.
StaleStrict(vis, location, cost) == location \in DOMAIN vis /\ vis[location] < cost

\* "Skip if we've already found a better path to this location".
Stale(vis, location, cost) == location \in DOMAIN vis /\ vis[location] <= cost

\* "Only add to queue if we haven't visited or found a better path".
Pushable(vis, neighbor, new_cost) ==
    neighbor \notin DOMAIN vis \/ vis[neighbor] > new_cost

\* highway or "Local Road"
Label(highway) == IF highway = "" THEN "Local Road" ELSE highway

\* Mutant: the cost so far is dropped.
NewCostEdgeOnly(cost, rec) == rec[2]

\* new_cost = current_cost + edge_cost
NewCost(cost, rec) == cost + rec[2]

\* Mutant: the distance of the edge replaces the running distance.
NewWaypointNoSum(path, cost, rec) ==
    <<rec[1], NewCost(cost, rec), rec[3],
      (IF path # << >> THEN Last(path)[4] ELSE 0) + rec[5],
      Label(rec[6])>>

\* Mutant: the waypoint carries the cost before the edge.
NewWaypointCostBefore(path, cost, rec) ==
    <<rec[1], cost,
      (IF path # << >> THEN Last(path)[3] ELSE 0) + rec[3],
      (IF path # << >> THEN Last(path)[4] ELSE 0) + rec[5],
      Label(rec[6])>>

\* The waypoint appended for one edge record.
NewWaypoint(path, cost, rec) ==
    <<rec[1], NewCost(cost, rec),
      (IF path # << >> THEN Last(path)[3] ELSE 0) + rec[3],
      (IF path # << >> THEN Last(path)[4] ELSE 0) + rec[5],
      Label(rec[6])>>

\* The for loop over neighbors, from the i-th record on.
RECURSIVE Expand(_, _, _, _, _, _)
Expand(heap, neighbors, i, cost, path, vis) ==
    IF i > Len(neighbors) THEN heap
    ELSE LET rec == neighbors[i]
             new_cost == NewCost(cost, rec)
         IN  IF Pushable(vis, rec[1], new_cost)
             THEN Expand(heappush(heap,
                            <<new_cost, rec[1],
                              Append(path, NewWaypoint(path, cost, rec))>>),
                         neighbors, i + 1, cost, path, vis)
             ELSE Expand(heap, neighbors, i + 1, cost, path, vis)

\* Mutant: the frontier is seeded with the goal.
InitialQueueGoal(s, g) == << <<0, g, << <<g, 0, 0, 0, "Starting Point">> >> >> >>

\* priority_queue = [(0, start, [(start, 0, 0, 0, "Starting Point")])]
InitialQueue(s, g) == << <<0, s, << <<s, 0, 0, 0, "Starting Point">> >> >> >>

\* The call, up to the first test of the while loop.
ucs_search(s, g) ==
    /\ pc \in {"idle", "done"}
    /\ start' = s
    /\ goal' = g
    /\ step' = 0
    /\ visited' = EmptyDict
    /\ current_cost' = 0
    /\ current_location' = NoLocation
    /\ path_info' = << >>
    /\ branch' = "call"
    /\ IF ~Known(s, g)
       THEN /\ message' = UnknownMessage
            /\ result' = UnknownLocationResult
            /\ outcome' = "UnknownLocation"
            /\ priority_queue' = << >>
            /\ pc' = "done"
       ELSE /\ message' = ""
            /\ result' = NotFoundResult
            /\ outcome' = "running"
            /\ priority_queue' = InitialQueue(s, g)
            /\ pc' = "loop"
    /\ UNCHANGED storeVars

\* One iteration of the while loop.
SearchStep ==
    /\ pc = "loop"
    /\ priority_queue # << >>
    /\ step < MaxSteps
    /\ LET popped == heappop(priority_queue)
           c == popped.item[1]
           n == popped.item[2]
           L == popped.item[3]
       IN  /\ step' = step + 1
           /\ current_cost' = c
           /\ current_location' = n
           /\ path_info' = L
           /\ IF Stale(visited, n, c)
              THEN /\ branch' = "continue"
                   /\ priority_queue' = popped.heap
                   /\ UNCHANGED <<visited, pc, result, outcome>>
              ELSE /\ visited' = Put(visited, n, c)
                   /\ IF n = goal
                      THEN /\ branch' = "return"
                           /\ priority_queue' = popped.heap
                           /\ result' = <<Some(L), Some(c),
                                          Some(Last(L)[3]), Some(Last(L)[4])>>
                           /\ outcome' = "Success"
                           /\ pc' = "done"
                      ELSE /\ branch' = "expand"
                           /\ priority_queue' =
                                 Expand(popped.heap,
                                        IF n \in DOMAIN graph THEN graph[n] ELSE << >>,
                                        1, c, L, Put(visited, n, c))
                           /\ UNCHANGED <<pc, result, outcome>>
    /\ UNCHANGED <<start, goal, message, storeVars>>

\* The while loop ends with the queue empty.
SearchExhausted ==
    /\ pc = "loop"
    /\ priority_queue = << >>
    /\ message' = NoRouteMessage
    /\ result' = NotFoundResult
    /\ outcome' = "NotFound"
    /\ pc' = "done"
    /\ UNCHANGED <<start, goal, priority_queue, visited, step, current_cost,
                   current_location, path_info, branch, storeVars>>

\* ------------------------------------------------------------- specifications

Init ==
    /\ graph = EmptyDict
    /\ locations = EmptyDict
    /\ start = NoLocation
    /\ goal = NoLocation
    /\ priority_queue = << >>
    /\ visited = EmptyDict
    /\ step = 0
    /\ current_cost = 0
    /\ current_location = NoLocation
    /\ path_info = << >>
    /\ pc = "idle"
    /\ branch = "call"
    /\ result = NotFoundResult
    /\ outcome = "none"
    /\ message = ""
    /\ calls = << >>

\* A caller that registers locations, adds highways, then searches.
Register ==
    /\ Len(calls) < MaxCalls
    /\ \E id \in Ids : add_location(id, "Manila")

\* add_highway(b, a, ...) with a # b leaves the graph that
\* add_highway(a, b, ...) leaves, so one orientation is drawn here; StoreSpec
\* draws both.
Build ==
    /\ Len(calls) < MaxCalls
    /\ \E a \in Ids, b \in Ids, h \in HighwayInputs :
          /\ a <= b
          /\ add_highway(a, b, h[1], h[2], h[3], h[4])

Search == \E s \in Ids, g \in Ids : ucs_search(s, g)

Next == Register \/ Build \/ Search \/ SearchStep \/ SearchExhausted

Spec == Init /\ [][Next]_vars


\* The graph store with both names and both orientations of a highway.
StoreHighwayInputs == { <<1, 10, 0, "">>, <<1, 15, 10, "SCTEX">> }

StoreRegister ==
    /\ Len(calls) < MaxCalls
    /\ \E id \in Ids, name \in Names : add_location(id, name)

StoreBuild ==
    /\ Len(calls) < MaxCalls
    /\ \E a \in Ids, b \in Ids, h \in StoreHighwayInputs :
          add_highway(a, b, h[1], h[2], h[3], h[4])

StoreNext ==
    StoreRegister \/ StoreBuild \/ Search \/ SearchStep \/ SearchExhausted

StoreSpec == Init /\ [][StoreNext]_vars

\* The concrete scenario: its locations and highways, each added once, in
\* any order, and searches between any two of the three identifiers.
ScenarioRegister ==
    \E id \in Ids :
        /\ id \notin DOMAIN locations
        /\ add_location(id, ScenarioNames[id])

ScenarioBuild ==
    \E h \in ScenarioHighways :
        /\ \A i \in 1..Len(calls) : calls[i] # <<"add_highway">> \o h
        /\ add_highway(h[1], h[2], h[3], h[4], h[5], h[6])

ScenarioNext ==
    ScenarioRegister \/ ScenarioBuild \/ Search \/ SearchStep \/ SearchExhausted

ScenarioSpec == Init /\ [][ScenarioNext]_vars

\* Termination: a small store with a negative highway, and the loop of
\* ucs_search running whenever it can (the interpreter runs a call to its end).
TerminationInputs == { <<1, 10, 0, "">>, <<1, 10, -20, "">> }

TerminationBuild ==
    /\ Len(calls) < MaxCalls
    /\ \E a \in Ids, b \in Ids, h \in TerminationInputs :
          /\ a < b
          /\ add_highway(a, b, h[1], h[2], h[3], h[4])

TerminationNext ==
    Register \/ TerminationBuild \/ Search \/ SearchStep \/ SearchExhausted

\* An iteration of the loop, by its guard and its count alone.  The steps of
\* TerminationNext that satisfy it are the SearchStep steps, and it is
\* enabled exactly when SearchStep is.
Iteration ==
    /\ pc = "loop"
    /\ priority_queue # << >>
    /\ step < MaxSteps
    /\ step' = step + 1

FairSpec ==
    /\ Init
    /\ [][TerminationNext]_vars
    /\ WF_step(Iteration)
    /\ WF_vars(SearchExhausted)

\* ------------------------------------------------------------- oracles

\* Every edge record of the graph has a non-negative total_cost.
NonNegative ==
    \A id \in DOMAIN graph :
        \A i \in 1..Len(graph[id]) : graph[id][i][2] >= 0

\* The costs of the simple paths from s to g that avoid the locations in
\* seen, by enumeration.
RECURSIVE SimplePathCosts(_, _, _)
SimplePathCosts(s, g, seen) ==
    IF s = g THEN {0}
    ELSE UNION { { graph[s][i][2] + c :
                     c \in SimplePathCosts(graph[s][i][1], g, seen \cup {s}) } :
                 i \in { j \in 1..Len(graph[s]) :
                           graph[s][j][1] \notin seen \cup {s} } }

Minimum(S) == CHOOSE m \in S : \A x \in S : m <= x

\* A search is running or has returned, for a start and goal the graph has.
Searched == pc # "idle" /\ start \in DOMAIN graph /\ goal \in DOMAIN graph

\* The loop can go on: it is not held by the model's bound on iterations.
NotHeld == pc = "loop" => (priority_queue = << >> \/ step < MaxSteps)

\* ------------------------------------------------------------- C1

\* C1: on a graph whose edge costs are all non-negative, a search between
\* two locations of the graph with the goal reachable from the start runs to
\* its end and returns a success whose total_cost is the minimum, over the
\* simple paths from start to goal, of the sum of the edge costs.
Optimality ==
    (Searched /\ NonNegative /\ SimplePathCosts(start, goal, {}) # {}) =>
        /\ NotHeld
        /\ pc = "done" =>
              /\ outcome = "Success"
              /\ result[2] = Some(Minimum(SimplePathCosts(start, goal, {})))

\* A two-edge route returned although a direct highway exists.
OptimalityWitness ==
    /\ pc = "done" /\ outcome = "Success" /\ NonNegative
    /\ Len(result[1][1]) = 3
    /\ \E i \in 1..Len(graph[start]) : graph[start][i][1] = goal

\* ------------------------------------------------------------- C2

\* Waypoint i of ledger L follows waypoint i - 1 by one adjacency record.
FollowsRecord(L, i) ==
    \E j \in 1..Len(graph[L[i - 1][1]]) :
        LET rec == graph[L[i - 1][1]][j]
        IN  /\ rec[1] = L[i][1]
            /\ L[i][2] = L[i - 1][2] + rec[2]
            /\ L[i][3] = L[i - 1][3] + rec[3]
            /\ L[i][4] = L[i - 1][4] + rec[5]
            /\ L[i][5] = (IF rec[6] = "" THEN "Local Road" ELSE rec[6])

LedgerSums(L) ==
    /\ L[1][3] = 0
    /\ L[1][4] = 0
    /\ \A i \in 2..Len(L) : FollowsRecord(L, i)

CostMonotone(L) == \A i \in 2..Len(L) : L[i - 1][2] <= L[i][2]

\* C2 as claimed: every returned ledger follows adjacency records, carries
\* the running sums of distance and toll, and its cumulative_cost never
\* decreases.
LedgerConsistencyAnyCosts ==
    (pc = "done" /\ outcome = "Success") =>
        LedgerSums(result[1][1]) /\ CostMonotone(result[1][1])

\* C2 amended: every returned ledger follows adjacency records and carries
\* the running sums of distance and toll; its cumulative_cost never
\* decreases when the edge costs of the graph are all non-negative.
LedgerConsistency ==
    (pc = "done" /\ outcome = "Success") =>
        /\ LedgerSums(result[1][1])
        /\ NonNegative => CostMonotone(result[1][1])

\* A returned ledger of three waypoints with a toll on the way.
LedgerConsistencyWitness ==
    /\ pc = "done" /\ outcome = "Success" /\ NonNegative
    /\ Len(result[1][1]) = 3
    /\ result[4][1] > 0
    /\ result[3][1] > 1

\* ------------------------------------------------------------- C3

\* C3 as claimed: with start or goal missing from the graph the search
\* returns at once, with no ledger or totals, a result unlike the one
\* returned when no route is found.
UnknownInputTagged ==
    (pc # "idle" /\ (start \notin DOMAIN graph \/ goal \notin DOMAIN graph)) =>
        /\ pc = "done" /\ step = 0
        /\ result[1] = None
        /\ result # NotFoundResult

\* C3 amended: with start or goal missing from the graph the search returns
\* before any frontier step, with no ledger or totals, a result unlike any
\* success; the returned tuple is the one returned when no route is found,
\* and only the printed message differs.
UnknownInput ==
    /\ (pc # "idle" /\ (start \notin DOMAIN graph \/ goal \notin DOMAIN graph)) =>
          /\ pc = "done" /\ outcome = "UnknownLocation"
          /\ step = 0 /\ priority_queue = << >> /\ visited = EmptyDict
          /\ result = <<None, None, None, None>>
          /\ message = UnknownMessage
    /\ outcome = "Success" => result[1] # None
    /\ outcome = "NotFound" =>
          result = <<None, None, None, None>> /\ message # UnknownMessage

\* The start is in the graph and the goal is not.
UnknownInputWitness ==
    /\ pc = "done" /\ outcome = "UnknownLocation"
    /\ start \in DOMAIN graph /\ graph[start] # << >>
    /\ goal \notin DOMAIN graph

\* ------------------------------------------------------------- C4

\* The goal has no incident edge: its list is empty and no list names it.
GoalIsolated ==
    /\ graph[goal] = << >>
    /\ \A id \in DOMAIN graph :
          \A i \in 1..Len(graph[id]) : graph[id][i][1] # goal

\* C4 as claimed: a search between registered locations whose goal has no
\* incident edge ends with NotFound.
NoPathAnyStart ==
    (Searched /\ GoalIsolated /\ pc = "done") => outcome = "NotFound"

\* C4 amended: a search between two different registered locations whose
\* goal has no incident edge never returns a success; when it returns, the
\* frontier is empty and the result is NotFound; and it does return when the
\* edge costs are non-negative.
NoPath ==
    (Searched /\ GoalIsolated /\ start # goal) =>
        /\ outcome # "Success"
        /\ pc = "done" =>
              /\ outcome = "NotFound"
              /\ priority_queue = << >>
              /\ result = <<None, None, None, None>>
        /\ NonNegative => NotHeld

\* NotFound after the start's component has been explored.
NoPathWitness ==
    /\ Searched /\ GoalIsolated /\ start # goal
    /\ pc = "done" /\ outcome = "NotFound"
    /\ Cardinality(DOMAIN visited) = 2


\* ------------------------------------------------------------- C5

ScenarioBuilt ==
    \A h \in ScenarioHighways :
        \E i \in 1..Len(calls) : calls[i] = <<"add_highway">> \o h

\* The locations of a ledger, in order.
Route(L) == [i \in 1..Len(L) |-> L[i][1]]

\* The total_cost of the records from a to b.
CostsBetween(a, b) ==
    { graph[a][i][2] : i \in { j \in 1..Len(graph[a]) : graph[a][j][1] = b } }

\* C5 as claimed: on the scenario graph the search from A to C returns
\* A, B, C with total_cost 191.5, distance 135 and toll 275.
ConcreteScenarioAsClaimed ==
    (ScenarioBuilt /\ pc = "done" /\ start = 1 /\ goal = 3) =>
        /\ outcome = "Success"
        /\ Route(result[1][1]) = <<1, 2, 3>>
        /\ result[2] = Some(1915)
        /\ result[3] = Some(135)
        /\ result[4] = Some(275)

\* C5 amended: on the scenario graph A-B costs 122, B-C costs 70
\* (55 * 1.1 + 9.5) and A-C costs 200, and the search from A to C returns
\* A, B, C with total_cost 192, distance 135 and toll 275.
ConcreteScenario ==
    ScenarioBuilt =>
        /\ CostsBetween(1, 2) = {1220}
        /\ CostsBetween(2, 3) = {700}
        /\ CostsBetween(1, 3) = {2000}
        /\ (pc # "idle" /\ start = 1 /\ goal = 3) =>
              /\ NotHeld
              /\ pc = "done" =>
                    /\ outcome = "Success"
                    /\ Route(result[1][1]) = <<1, 2, 3>>
                    /\ result[2] = Some(1920)
                    /\ result[3] = Some(135)
                    /\ result[4] = Some(275)

ConcreteScenarioWitness ==
    /\ ScenarioBuilt
    /\ pc = "done" /\ start = 1 /\ goal = 3 /\ outcome = "Success"
    /\ DOMAIN locations = Ids

\* ------------------------------------------------------------- C6

IsHighwayCall(c) == c[1] = "add_highway"

HighwayCalls == { i \in 1..Len(calls) : IsHighwayCall(calls[i]) }

\* The record that the call c puts in one endpoint's list, naming the other.
RecordNaming(other, c) ==
    <<other, c[4] * c[5] + c[6], c[4], c[5], c[6], c[7]>>

\* The records that the calls from the i-th on put in the list of id.
RECURSIVE RecordsFrom(_, _)
RecordsFrom(id, i) ==
    IF i > Len(calls) THEN << >>
    ELSE LET c == calls[i]
         IN  (IF IsHighwayCall(c) /\ c[2] = id
                 THEN <<RecordNaming(c[3], c)>> ELSE << >>)
             \o (IF IsHighwayCall(c) /\ c[3] = id
                 THEN <<RecordNaming(c[2], c)>> ELSE << >>)
             \o RecordsFrom(id, i + 1)

RECURSIVE SumLen(_)
SumLen(S) ==
    IF S = {} THEN 0
    ELSE LET id == CHOOSE x \in S : TRUE
         IN  Len(graph[id]) + SumLen(S \ {id})

\* The number of records of a's list that name b, with their fields after
\* the name equal to those of rec.
Twins(a, b, rec) ==
    Cardinality({ i \in 1..Len(graph[a]) :
        /\ graph[a][i][1] = b
        /\ SubSeq(graph[a][i], 2, 6) = SubSeq(rec, 2, 6) })

\* C6: each add_highway(A, B, ...) has appended two records, one in A's
\* list naming B and one in B's list naming A, with the same edge_cost,
\* distance, traffic factor, toll and label; the records are twice the
\* add_highway calls; and on a graph with one highway A-B the searches from
\* A to B and from B to A both return that highway's edge_cost.
SymmetricRecords ==
    /\ \A id \in DOMAIN graph : graph[id] = RecordsFrom(id, 1)
    /\ SumLen(DOMAIN graph) = 2 * Cardinality(HighwayCalls)
    /\ \A a \in DOMAIN graph : \A i \in 1..Len(graph[a]) :
          LET rec == graph[a][i]
          IN  /\ rec[1] \in DOMAIN graph
              /\ rec[1] # a => Twins(a, rec[1], rec) = Twins(rec[1], a, rec)
              /\ rec[1] = a => Twins(a, a, rec) % 2 = 0
    /\ \A i \in HighwayCalls :
          (/\ HighwayCalls = {i}
           /\ pc # "idle"
           /\ {start, goal} = {calls[i][2], calls[i][3]}
           /\ start # goal) =>
              /\ NotHeld
              /\ pc = "done" =>
                    /\ outcome = "Success"
                    /\ result[2] = Some(calls[i][4] * calls[i][5] + calls[i][6])

\* One highway, searched against the direction in which it was added.
SymmetricRecordsWitness ==
    \E i \in HighwayCalls :
        /\ HighwayCalls = {i}
        /\ pc = "done" /\ outcome = "Success"
        /\ start = calls[i][3] /\ goal = calls[i][2] /\ start # goal
        /\ calls[i][6] > 0

\* ------------------------------------------------------------- C7

\* C7: every add_location(id, name), a repeated one with another name
\* included, leaves id with that name and one adjacency list, empty if id had
\* none and otherwise the list it had, and leaves every other location's
\* name and list as they were.
IdempotentRegistration ==
    [][\A id \in Ids, name \in Names :
         calls' = Append(calls, <<"add_location", id, name>>) =>
            /\ DOMAIN locations' = DOMAIN locations \cup {id}
            /\ locations'[id] = name
            /\ \A k \in DOMAIN locations \ {id} : locations'[k] = locations[k]
            /\ DOMAIN graph' = DOMAIN graph \cup {id}
            /\ \A k \in DOMAIN graph : graph'[k] = graph[k]
            /\ id \notin DOMAIN graph => graph'[id] = << >>]_vars

\* A location registered, given a highway, and registered again under
\* another name.
IdempotentRegistrationWitness ==
    \E i, j, k \in 1..Len(calls) :
        /\ i < j /\ j < k
        /\ calls[i][1] = "add_location"
        /\ calls[k][1] = "add_location"
        /\ calls[i][2] = calls[k][2]
        /\ calls[i][3] # calls[k][3]
        /\ IsHighwayCall(calls[j])
        /\ calls[j][2] = calls[i][2]
        /\ locations[calls[k][2]] = calls[k][3]
        /\ Len(graph[calls[k][2]]) >= 1

\* ------------------------------------------------------------- C8

\* C8: every search that enters its loop leaves it, by returning the goal's
\* entry or by emptying the frontier.
Termination == (pc = "loop") ~> (pc = "done")

\* Why the loop of the code does not end, whatever the number of iterations
\* followed.  Diverging holds of a search whose least frontier entry is for a
\* location with a highway of negative cost, at a cost below every recorded
\* best cost and below every entry of the goal, the goal having no highway of
\* negative cost.  That entry is not stale and is not the goal; expanding it
\* pushes the other end of the negative highway at a lower cost still, which
\* is the least entry of the next iteration.
HasNegativeRecord(n) == \E i \in 1..Len(graph[n]) : graph[n][i][2] < 0

Diverging ==
    /\ pc = "loop"
    /\ priority_queue # << >>
    /\ HasNegativeRecord(priority_queue[1][2])
    /\ ~HasNegativeRecord(goal)
    /\ \A k \in DOMAIN visited : visited[k] > priority_queue[1][1]
    /\ \A i \in 1..Len(priority_queue) :
          priority_queue[i][2] = goal => priority_queue[i][1] > priority_queue[1][1]

\* Every iteration of a diverging search leaves it diverging, so it never
\* returns.
DivergencePersists == [][(Diverging /\ step' = step + 1) => Diverging']_vars

\* A diverging search that has been followed up to the bound on iterations.
DivergenceReached == Diverging /\ step = MaxSteps

\* ------------------------------------------------------------- C9

Occurrences(heap, e) == Cardinality({ i \in 1..Len(heap) : heap[i] = e })

\* C9: in a search over non-negative edge costs every iteration keeps the
\* entries of the best-cost table; it adds at most the extracted location,
\* at the extracted cost; and an entry extracted for a location already in
\* the table is dropped: the table stays as it is and the frontier loses
\* that entry and gains none.
FinalizeOnce ==
    [][(pc = "loop" /\ NonNegative /\ step' = step + 1) =>
         LET popped == <<current_cost', current_location', path_info'>>
         IN  /\ \A k \in DOMAIN visited :
                   k \in DOMAIN visited' /\ visited'[k] = visited[k]
             /\ DOMAIN visited' = DOMAIN visited \cup {current_location'}
             /\ current_location' \notin DOMAIN visited =>
                   visited'[current_location'] = current_cost'
             /\ current_location' \in DOMAIN visited =>
                   /\ visited' = visited
                   /\ branch' = "continue"
                   /\ Len(priority_queue') = Len(priority_queue) - 1
                   /\ \A i \in 1..Len(priority_queue) :
                         Occurrences(priority_queue, priority_queue[i]) =
                            Occurrences(priority_queue', priority_queue[i])
                            + (IF priority_queue[i] = popped THEN 1 ELSE 0)]_vars

\* A stale entry has just been dropped while entries remain.
FinalizeOnceWitness ==
    /\ pc = "loop" /\ branch = "continue" /\ NonNegative
    /\ current_location \in DOMAIN visited
    /\ visited[current_location] < current_cost
    /\ priority_queue # << >>

\* ------------------------------------------------------------- C10

\* C10: every extraction removes an entry of the frontier whose cost is the
\* least in the frontier, whose location is the least among the entries of
\* that cost, and whose ledger is the least among the entries of that cost
\* and location: the entry extracted, and so the result of the search, is
\* determined by the graph, the start and the goal.
ExtractionOrder ==
    [][(pc = "loop" /\ step' = step + 1) =>
         /\ \E i \in 1..Len(priority_queue) :
               priority_queue[i] = <<current_cost', current_location', path_info'>>
         /\ Len(priority_queue') >= Len(priority_queue) - 1
         /\ \A i \in 1..Len(priority_queue) :
               LET e == priority_queue[i]
               IN  /\ current_cost' <= e[1]
                   /\ e[1] = current_cost' => current_location' <= e[2]
                   /\ (e[1] = current_cost' /\ e[2] = current_location') =>
                         (e[3] = path_info' \/ PathLess(path_info', e[3]))]_vars

\* An entry was extracted while another of the same cost, for a greater
\* location, stayed in the frontier.
ExtractionOrderWitness ==
    /\ pc # "idle" /\ step >= 1
    /\ branch \in {"continue", "return"}
    /\ \E i \in 1..Len(priority_queue) :
          /\ priority_queue[i][1] = current_cost
          /\ priority_queue[i][2] > current_location

\* ------------------------------------------------------------- C11

\* The waypoint every ledger of a search from s begins with.
StartingPoint(s) == <<s, 0, 0, 0, "Starting Point">>

\* The entry e = (cost, node, ledger) of a search from s: the ledger is not
\* empty, begins with the starting point, ends at the node, at the cost.
WellFormed(e, s) ==
    /\ Len(e) = 3
    /\ e[3] # << >>
    /\ e[3][1] = StartingPoint(s)
    /\ Last(e[3])[1] = e[2]
    /\ Last(e[3])[2] = e[1]

\* C11: while a search runs and after it has returned, every entry of the
\* frontier, and the entry last extracted, has a ledger that is not empty,
\* begins with (start, 0, 0, 0, "Starting Point"), ends at the entry's
\* location and carries the entry's cost in its last waypoint; a successful
\* result's ledger begins at start and ends at goal, and its total_cost,
\* total_distance and total_toll are the cumulative values of its last
\* waypoint; a successful search with start = goal returns the ledger of
\* the starting point alone with all three totals zero.
FrontierWellFormed ==
    /\ pc # "idle" =>
          \A i \in 1..Len(priority_queue) :
              WellFormed(priority_queue[i], start)
    /\ (pc # "idle" /\ step >= 1) =>
          WellFormed(<<current_cost, current_location, path_info>>, start)
    /\ outcome = "Success" =>
          LET L == result[1][1]
          IN  /\ L # << >>
              /\ L[1] = StartingPoint(start)
              /\ Last(L)[1] = goal
              /\ result[2] = Some(Last(L)[2])
              /\ result[3] = Some(Last(L)[3])
              /\ result[4] = Some(Last(L)[4])
              /\ start = goal =>
                    /\ L = <<StartingPoint(start)>>
                    /\ result = <<Some(L), Some(0), Some(0), Some(0)>>

\* A route of two highways returned while the frontier still holds an entry
\* with a ledger of several waypoints and a cost that is not zero.
FrontierWellFormedWitness ==
    /\ pc = "done" /\ outcome = "Success"
    /\ Len(result[1][1]) = 3
    /\ result[2][1] > 0
    /\ \E i \in 1..Len(priority_queue) :
          /\ Len(priority_queue[i][3]) >= 2
          /\ priority_queue[i][1] > 0

\* A search from a location to itself has returned, the location having
\* highways.
SelfSearchReturned ==
    /\ pc = "done" /\ outcome = "Success"
    /\ start = goal
    /\ graph[start] # << >>

=============================================================================
